---- MODULE Spec2Model ----
(***************************************************************************)
(* State machine of the mineserv single-page client (frontend/app.js):     *)
(* the session state object, render(), the poll timers, the console         *)
(* WebSocket, and the requests in flight through api.request and            *)
(* api.uploadWorld.  One action per handler or callback; a request is a     *)
(* suspended async function, and the steps between two awaits are atomic.   *)
(***************************************************************************)
EXTENDS Naturals, Sequences, FiniteSets, Bags, TLC

(* ---- bounds of the model ---- *)
MaxInFlight == 2
MaxTimers == 2
MaxSockets == 2
MaxFrames == 1
MaxLines == 2

(* ---- values ---- *)
None == "none"
Tok == "abc"
Servers == {"s1", "s2"}
Tabs == {"console", "files", "plugins", "worlds", "settings"}
States == {"running", "stopped"}
Statuses == {200, 401, 500}
\* What GET /servers may list.
ServerLists == {{}, Servers}
\* What GET /stats may report: total_servers, running_servers.
FleetStats == {[total |-> 3, running |-> 1], [total |-> 0, running |-> 0]}
\* One report of GET /stats, for the specifications that are not about the counters.
SomeStats == {[total |-> 3, running |-> 1]}
TabLoads == {"listFiles", "getInstalledPlugins", "listWorlds", "getConfig"}
ModalCalls == {"getVersions", "createServer", "readFile", "writeFile"}
ApiKinds == {"getServer", "dash", "login", "start", "stop", "restart", "delete"}
              \cup TabLoads \cup ModalCalls

VARIABLES
  token,          \* state.token
  stored,         \* localStorage 'token'
  currentView,    \* state.currentView
  currentTab,     \* state.currentTab
  currentServer,  \* state.currentServer
  pollInterval,   \* state.pollInterval: 0 (null) or a timer handle
  serverData,     \* state.serverData
  timers,         \* the intervals set and not cleared: records [id, kind]
  ws,             \* the variable ws: 0 (null) or a socket handle
  sockets,        \* the WebSocket objects: records [id, sid, st, out]
  mounted,        \* what #app holds: "login", "dashboard" or "server"
  header,         \* contents of #server-header
  prevBadge,      \* history: the badge text the latest header write replaced
  tabContent,     \* contents of #tab-content
  rows,           \* the server rows shown in #servers-list
  modal,          \* the overlays #modal-container holds: a set of modal names
  counters,       \* #stat-total and #stat-running: [shown, total, running]
  listNodes,      \* which generation of child nodes #servers-list holds
  consoleIn,      \* value of the input #console-in
  submitted,      \* history: the file selection the latest handleWorldUpload call saw
  lastSend,       \* history: the readyState the latest sendConsole call saw
  consoleOut,     \* the mounted #console-out: 0 (none) or the socket whose onmessage captured it
  transcript,     \* the child nodes of the mounted #console-out, in document order
  alerted,        \* output: what the latest step passed to alert() in a catch block of the
                  \* start / stop / restart / delete handlers; None if it showed no alert
  editor,         \* the editor modal: the path its Save button writes to and the value
                  \* of the textarea #editor; NoEditor without one
  uncaught,       \* output: the latest step was a loadServerData call that ended with an
                  \* error thrown out of its catch block (its promise is rejected, unhandled)
  requests        \* bag of the requests in flight (suspended async calls)

vars == <<token, stored, currentView, currentTab, currentServer, pollInterval,
          serverData, timers, ws, sockets, mounted, header, prevBadge,
          tabContent, rows, modal, counters, listNodes, consoleIn, submitted,
          lastSend, consoleOut, transcript, alerted, editor, uncaught, requests>>

sessionVars == <<currentView, currentTab, currentServer>>
socketVars == <<ws, sockets>>
dashVars == <<counters, listNodes>>
inputVars == <<consoleIn, submitted, lastSend, editor>>
consoleVars == <<consoleOut, transcript>>

NoData == [id |-> None, state |-> None]
EmptyHeader == [name |-> None, text |-> None, class |-> None, btn |-> None, info |-> None]
\* The counters as renderDashboard writes them: the placeholder "-".
NoCounters == [shown |-> FALSE, total |-> 0, running |-> 0]
\* No editor modal is mounted.
NoEditor == [path |-> None, value |-> None]
\* No sendConsole call on the mounted console form yet.
NoSend == [st |-> None, text |-> ""]

(* ---- requests ---- *)
\* full: the call was made by render() (for loadServerData, its fullRender argument).
\* tick: the call was made by an interval callback.
\* form: the button the submitting handler captured is still in the document.
\* path, content: the arguments of api.readFile and api.writeFile.
Req(kind, sid, full) ==
  [kind |-> kind, sid |-> sid, full |-> full, tick |-> FALSE, form |-> FALSE,
   phase |-> "pending", status |-> 0, path |-> None, content |-> None]
FileReq(kind, sid, path, content) ==
  [Req(kind, sid, FALSE) EXCEPT !.path = path, !.content = content]
TickReq(kind, sid) == [Req(kind, sid, FALSE) EXCEPT !.tick = TRUE]
FormReq(kind, sid) == [Req(kind, sid, FALSE) EXCEPT !.form = TRUE]

InFlight == BagToSet(requests)
Issue(reqs, r) == reqs (+) SetToBag({r})
Drop(reqs, r) == reqs (-) SetToBag({r})
Room(reqs) == BagCardinality(reqs) < MaxInFlight
\* The modal container's content is replaced or removed: the buttons that the
\* suspended submit handlers captured are no longer in the document.
Unform(r) == [r EXCEPT !.form = FALSE]
Detach(reqs) == BagOfAll(Unform, reqs)

(* ---- timers ---- *)
TimerIds(tmrs) == {t.id : t \in tmrs}
FreeTimerIds(tmrs) == (1..MaxTimers) \ TimerIds(tmrs)
NewTimerId(tmrs) == CHOOSE i \in FreeTimerIds(tmrs) : \A j \in FreeTimerIds(tmrs) : i <= j
SetInterval(tmrs, kind) == tmrs \cup {[id |-> NewTimerId(tmrs), kind |-> kind]}
ClearInterval(tmrs, h) == {t \in tmrs : t.id # h}
\* The delay render() passes to setInterval, in ms.
Cadence(kind) == IF kind = "dash" THEN 3000 ELSE 2000

(* ---- the console socket ---- *)
FreeSocketIds(socks) == (1..MaxSockets) \ {s.id : s \in socks}
NewSocketId(socks) == CHOOSE i \in FreeSocketIds(socks) : \A j \in FreeSocketIds(socks) : i <= j
\* ws.close(): OPEN or CONNECTING becomes CLOSING; a no-op on a closing or closed socket.
Close(socks, h) ==
  {IF s.id = h /\ s.st \in {"connecting", "open"} THEN [s EXCEPT !.st = "closing"] ELSE s
     : s \in socks}
\* A closed socket no variable refers to is garbage.
Collect(socks, w) == {s \in socks : s.st # "closed" \/ s.id = w}
NotClosed(socks) == {s \in socks : s.st \in {"connecting", "open"}}

\* setupConsole without its first line, if (ws) ws.close().
setupConsoleNoClose(socks, w, id) ==
  LET n == NewSocketId(socks)
  IN [ws |-> n,
      sockets |-> Collect(socks \cup {[id |-> n, sid |-> id, st |-> "connecting", out |-> 0]}, n)]

setupConsole(socks, w, id) ==
  LET closed == IF w # 0 THEN Close(socks, w) ELSE socks
      n == NewSocketId(closed)
  IN [ws |-> n,
      sockets |-> Collect(closed \cup {[id |-> n, sid |-> id, st |-> "connecting", out |-> 0]}, n)]

(* ---- the server-detail header ---- *)
BadgeClass(st) == IF st = "running" THEN "badge-success" ELSE "badge-error"
Button(st) == IF st = "running" THEN "stop" ELSE "start"
\* The header update with a fallback template that lacks the info line.
ApplySnapshotFallbackNoInfo(h, s) ==
  IF h # EmptyHeader
  THEN [h EXCEPT !.class = BadgeClass(s.state), !.text = s.state,
                 !.info = s.id, !.btn = Button(s.state)]
  ELSE [name |-> s.id, text |-> s.state, class |-> BadgeClass(s.state),
        btn |-> Button(s.state), info |-> None]
\* The header update with a patch that leaves a transitional badge alone.
ApplySnapshotKeepsTransitional(h, s) ==
  IF h # EmptyHeader
  THEN IF h.text \in {"starting", "stopping"}
       THEN [h EXCEPT !.info = s.id, !.btn = Button(s.state)]
       ELSE [h EXCEPT !.class = BadgeClass(s.state), !.text = s.state,
                      !.info = s.id, !.btn = Button(s.state)]
  ELSE [name |-> s.id, text |-> s.state, class |-> BadgeClass(s.state),
        btn |-> Button(s.state), info |-> s.id]

\* The header update without the patch branch: the first snapshot applied stays.
ApplySnapshotFirstWins(h, s) ==
  IF h # EmptyHeader
  THEN h
  ELSE [name |-> s.id, text |-> s.state, class |-> BadgeClass(s.state),
        btn |-> Button(s.state), info |-> s.id]

\* loadServerData's header update: patch the three loci, or the first-render fallback.
ApplySnapshot(h, s) ==
  IF h # EmptyHeader
  THEN [h EXCEPT !.class = BadgeClass(s.state), !.text = s.state,
                 !.info = s.id, !.btn = Button(s.state)]
  ELSE [name |-> s.id, text |-> s.state, class |-> BadgeClass(s.state),
        btn |-> Button(s.state), info |-> s.id]
\* The optimistic badge write of handleStart / handleStop.
Optimistic(h, txt, cls) ==
  IF h # EmptyHeader THEN [h EXCEPT !.text = txt, !.class = cls] ELSE h
Visible(h) == [text |-> h.text, class |-> h.class, btn |-> h.btn, info |-> h.info]

(* ---- render() ---- *)
\* render() without its first branch, if (!state.token).
RenderWithoutLogin(tok, view, srv, poll, tmrs, reqs) ==
  IF view = "dashboard"
  THEN [mounted |-> "dashboard", timers |-> SetInterval(tmrs, "dash"),
        poll |-> NewTimerId(tmrs), reqs |-> Issue(reqs, Req("dash", None, TRUE))]
  ELSE IF srv # None
  THEN [mounted |-> "server", timers |-> SetInterval(tmrs, "server"),
        poll |-> NewTimerId(tmrs), reqs |-> Issue(reqs, Req("getServer", srv, TRUE))]
  ELSE [mounted |-> "server", timers |-> tmrs, poll |-> poll, reqs |-> reqs]

\* What render() leaves behind, given the session state it reads.
Render(tok, view, srv, poll, tmrs, reqs) ==
  IF tok = None
  THEN [mounted |-> "login", timers |-> tmrs, poll |-> poll, reqs |-> reqs]
  ELSE IF view = "dashboard"
  THEN [mounted |-> "dashboard", timers |-> SetInterval(tmrs, "dash"),
        poll |-> NewTimerId(tmrs), reqs |-> Issue(reqs, Req("dash", None, TRUE))]
  ELSE IF srv # None
  THEN [mounted |-> "server", timers |-> SetInterval(tmrs, "server"),
        poll |-> NewTimerId(tmrs), reqs |-> Issue(reqs, Req("getServer", srv, TRUE))]
  ELSE [mounted |-> "server", timers |-> tmrs, poll |-> poll, reqs |-> reqs]

\* render() can run within the bounds: a free timer handle and room for the fetch.
CanRender(tok, view, srv, tmrs, reqs) ==
  (tok # None /\ (view = "dashboard" \/ srv # None))
    => (FreeTimerIds(tmrs) # {} /\ Room(reqs))

\* The part of a step that is the call of render().
DoRender(tok, view, srv, poll, tmrs, reqs) ==
  /\ CanRender(tok, view, srv, tmrs, reqs)
  /\ LET r == Render(tok, view, srv, poll, tmrs, reqs) IN
       /\ mounted' = r.mounted
       /\ timers' = r.timers
       /\ pollInterval' = r.poll
       /\ requests' = Detach(r.reqs)
  /\ header' = EmptyHeader
  /\ prevBadge' = None
  /\ tabContent' = "empty"
  /\ rows' = {}
  /\ modal' = {}
  /\ counters' = NoCounters
  /\ listNodes' = 0
  /\ consoleIn' = ""
  /\ submitted' = None
  /\ editor' = NoEditor
  /\ lastSend' = NoSend
  /\ consoleOut' = 0
  /\ transcript' = << >>
  /\ alerted' = None
  /\ uncaught' = FALSE

(* ---- initial state: the script has run to its last line, render() ---- *)
Init ==
  /\ stored \in {None, Tok}
  /\ token = stored
  /\ currentView = "dashboard"
  /\ currentTab = "console"
  /\ currentServer = None
  /\ serverData = NoData
  /\ ws = 0
  /\ sockets = {}
  /\ header = EmptyHeader
  /\ prevBadge = None
  /\ tabContent = "empty"
  /\ rows = {}
  /\ modal = {}
  /\ counters = NoCounters
  /\ listNodes = 0
  /\ consoleIn = ""
  /\ submitted = None
  /\ editor = NoEditor
  /\ lastSend = NoSend
  /\ consoleOut = 0
  /\ transcript = << >>
  /\ alerted = None
  /\ uncaught = FALSE
  /\ LET r == Render(stored, "dashboard", None, 0, {}, EmptyBag) IN
       /\ mounted = r.mounted
       /\ timers = r.timers
       /\ pollInterval = r.poll
       /\ requests = r.reqs

(* ---- routing ---- *)
navigateTo(view, serverId, reqs) ==
  /\ LET srv == IF serverId # None THEN serverId ELSE currentServer
         tmrs == IF pollInterval # 0 THEN ClearInterval(timers, pollInterval) ELSE timers
     IN /\ currentView' = view
        /\ currentServer' = srv
        /\ DoRender(token, view, srv, 0, tmrs, reqs)
  /\ UNCHANGED <<token, stored, currentTab, serverData, socketVars>>

\* Sidebar "Dashboard" item.
NavigateDashboard ==
  /\ mounted \in {"dashboard", "server"}
  /\ navigateTo("dashboard", None, requests)

\* Click on a server row of the dashboard list.
NavigateServer(s) ==
  /\ mounted = "dashboard"
  /\ s \in rows
  /\ navigateTo("server", s, requests)

\* setTab without its call of render(): the tab is recorded, the view is left alone.
setTabNoRender(tab) ==
  /\ mounted = "server"
  /\ currentTab' = tab
  /\ UNCHANGED <<token, stored, currentView, currentServer, serverData, socketVars,
                 pollInterval, timers, mounted, header, prevBadge, tabContent, rows,
                 modal, dashVars, inputVars, consoleVars, requests>>
  /\ alerted' = None
  /\ uncaught' = FALSE

setTab(tab) ==
  /\ mounted = "server"
  /\ currentTab' = tab
  /\ DoRender(token, currentView, currentServer, pollInterval, timers, requests)
  /\ UNCHANGED <<token, stored, currentView, currentServer, serverData, socketVars>>

logout ==
  /\ mounted \in {"dashboard", "server"}
  /\ stored' = None
  /\ token' = None
  /\ LET tmrs == IF pollInterval # 0 THEN ClearInterval(timers, pollInterval) ELSE timers
     IN DoRender(None, currentView, currentServer, pollInterval, tmrs, requests)
  /\ UNCHANGED <<sessionVars, serverData, socketVars>>

(* ---- api.request and api.uploadWorld: the response arrives ---- *)
ResponseOk(status) == status \in 200..299
\* The 401 branch of api.request.
ApiAuthFailure(status) == status = 401
\* api.request returning from its 401 branch instead of falling through to the throw.
ApiSettleNoThrow(r, status) ==
  [r EXCEPT !.phase = IF ResponseOk(status) \/ status = 401 THEN "resolved" ELSE "rejected",
            !.status = status]
\* How the awaited call settles: api.request throws on every response that is not ok.
ApiSettle(r, status) ==
  [r EXCEPT !.phase = IF ResponseOk(status) THEN "resolved" ELSE "rejected",
            !.status = status]
\* uploadWorld's then(): Promise.reject('Upload failed') on every response that is not ok.
UploadSettle(r, status) ==
  [r EXCEPT !.phase = IF ResponseOk(status) THEN "resolved" ELSE "rejected",
            !.status = status]

\* The Authorization header of api.request: set only when state.token is truthy.
AuthHeader(tok) == IF tok # None THEN <<"Bearer", tok>> ELSE << >>
\* The Authorization header of api.uploadWorld: the template `Bearer ${state.token}`.
UploadAuthHeader(tok) == <<"Bearer", IF tok = None THEN "null" ELSE tok>>
\* What the caller's catch block receives from api.request for a response that
\* is not ok: an Error whose message is the response text.
ApiFailure(status) == [class |-> "Error", message |-> "response text"]
\* What it receives from api.uploadWorld: the string 'Upload failed'.
UploadFailure(status) == [class |-> "string", message |-> "Upload failed"]

\* A 401 arrives for a call made through api.request: the token is dropped and
\* render() runs, then the call awaits the body before it throws.  (Any other
\* response changes nothing before the caller resumes: see Resolves, Rejects.)
ApiRespond(r, status) ==
  /\ r \in InFlight
  /\ r.kind \in ApiKinds
  /\ r.phase = "pending"
  /\ ~ResponseOk(status)
  /\ ApiAuthFailure(status)
  /\ token' = None
  /\ stored' = None
  /\ DoRender(None, currentView, currentServer, pollInterval, timers,
              Issue(Drop(requests, r), ApiSettle(r, status)))
  /\ UNCHANGED <<sessionVars, serverData, socketVars>>

\* The caller of api.request resumes after its await with a result:
\* an ok response arrives now.
Resolves(r) ==
  /\ r \in InFlight
  /\ \/ r.phase = "resolved"
     \/ r.phase = "pending" /\ \E status \in Statuses : ApiSettle(r, status).phase = "resolved"

\* The caller of api.request resumes in its catch block: the 401 handled
\* before, or a failure that is not a 401 arrives now.
Rejects(r) ==
  /\ r \in InFlight
  /\ \/ r.phase = "rejected"
     \/ r.phase = "pending" /\ \E status \in Statuses :
          ~ApiAuthFailure(status) /\ ApiSettle(r, status).phase = "rejected"

\* uploadWorld's own then() runs when the response arrives: a response that is
\* not ok rejects, whatever its status, and nothing else is done.
UploadRespond(r, status) ==
  /\ r \in InFlight
  /\ r.kind = "upload"
  /\ r.phase = "pending"
  /\ ~ResponseOk(status)
  /\ requests' = Issue(Drop(requests, r), UploadSettle(r, status))
  /\ UNCHANGED <<token, stored, sessionVars, serverData, pollInterval, timers,
                 socketVars, mounted, header, prevBadge, tabContent, rows, modal,
                 dashVars, inputVars,
                 consoleVars>>
  /\ alerted' = None
  /\ uncaught' = FALSE

UploadResolves(r) ==
  /\ r \in InFlight
  /\ r.phase = "pending"
  /\ \E status \in Statuses : UploadSettle(r, status).phase = "resolved"

UploadRejects(r) ==
  /\ r \in InFlight
  /\ r.phase = "rejected"

(* ---- the poll timers fire ---- *)
Tick(t) ==
  /\ t \in timers
  /\ Room(requests)
  /\ IF t.kind = "dash"
     THEN requests' = Issue(requests, TickReq("dash", None))
     ELSE /\ currentServer # None
          /\ requests' = Issue(requests, TickReq("getServer", currentServer))
  /\ UNCHANGED <<token, stored, sessionVars, serverData, pollInterval, timers,
                 socketVars, mounted, header, prevBadge, tabContent, rows, modal,
                 dashVars, inputVars,
                 consoleVars>>
  /\ alerted' = None
  /\ uncaught' = FALSE

(* ---- loadServerData after its await ---- *)
TabLoad(tab) ==
  CASE tab = "files" -> "listFiles"
    [] tab = "plugins" -> "getInstalledPlugins"
    [] tab = "worlds" -> "listWorlds"
    [] tab = "settings" -> "getConfig"

\* loadServerData that takes every call for a full render.
FullRenderAlways(r) == TRUE
\* loadServerData's argument fullRender: true in render()'s call only.
FullRender(r) == r.full

\* A full render's write to #tab-content when the server-detail shell is not
\* mounted: getElementById returns null and the assignment to .innerHTML throws
\* a TypeError. In the try block it is caught by the catch block, whose own
\* write to #tab-content throws again: nothing catches that one.
TabContentMissing(r) == FullRender(r) /\ mounted # "server"

LoadServerDataThen(r, st) ==
  /\ r.kind = "getServer"
  /\ Resolves(r)
  /\ LET server == [id |-> r.sid, state |-> st] IN
       /\ serverData' = server
       /\ IF mounted = "server"
          THEN /\ header' = ApplySnapshot(header, server)
               /\ prevBadge' = header.text
          ELSE UNCHANGED <<header, prevBadge>>
       /\ IF FullRender(r) /\ mounted = "server"
          THEN /\ tabContent' = currentTab
               /\ consoleIn' = ""
               /\ lastSend' = NoSend
               /\ IF currentTab = "console"
                  THEN /\ FreeSocketIds(sockets) # {}
                       /\ LET c == setupConsole(sockets, ws, server.id) IN
                            /\ ws' = c.ws
                            /\ sockets' = c.sockets
                            /\ consoleOut' = c.ws
                       /\ transcript' = << >>
                       /\ requests' = Drop(requests, r)
                  ELSE /\ requests' = Issue(Drop(requests, r),
                                            Req(TabLoad(currentTab), currentServer, FALSE))
                       /\ consoleOut' = 0
                       /\ transcript' = << >>
                       /\ UNCHANGED socketVars
          \* without #tab-content the write throws, and so does the catch block
          ELSE /\ requests' = Drop(requests, r)
               /\ UNCHANGED <<tabContent, socketVars, consoleIn, lastSend, consoleVars>>
  /\ UNCHANGED <<token, stored, sessionVars, pollInterval, timers, mounted, rows, modal,
                 dashVars, submitted, editor>>
  /\ alerted' = None
  /\ uncaught' = TabContentMissing(r)

\* A catch block of loadServerData that writes its message on every failure.
LoadServerDataCatchShows(r) ==
  /\ r.kind = "getServer"
  /\ Rejects(r)
  /\ requests' = Drop(requests, r)
  /\ IF mounted = "server"
     THEN /\ tabContent' = "error"
          /\ consoleIn' = ""
          /\ lastSend' = NoSend
          /\ consoleOut' = 0
          /\ transcript' = << >>
     ELSE UNCHANGED <<tabContent, consoleIn, lastSend, consoleVars>>
  /\ UNCHANGED <<token, stored, sessionVars, serverData, pollInterval, timers,
                 socketVars, mounted, header, prevBadge, rows, modal,
                 dashVars, submitted, editor>>
  /\ alerted' = None
  /\ uncaught' = (mounted # "server")

LoadServerDataCatch(r) ==
  /\ r.kind = "getServer"
  /\ Rejects(r)
  /\ requests' = Drop(requests, r)
  /\ IF FullRender(r) /\ mounted = "server"
     THEN /\ tabContent' = "error"
          /\ consoleIn' = ""
          /\ lastSend' = NoSend
          /\ consoleOut' = 0
          /\ transcript' = << >>
     ELSE UNCHANGED <<tabContent, consoleIn, lastSend, consoleVars>>
  /\ UNCHANGED <<token, stored, sessionVars, serverData, pollInterval, timers,
                 socketVars, mounted, header, prevBadge, rows, modal,
                 dashVars, submitted, editor>>
  /\ alerted' = None
  /\ uncaught' = TabContentMissing(r)

(* ---- the tab loaders after their await: the list element was captured before ---- *)
TabLoadSettled(r) ==
  /\ r.kind \in TabLoads
  /\ (Resolves(r) \/ Rejects(r))
  /\ requests' = Drop(requests, r)
  /\ UNCHANGED <<token, stored, sessionVars, serverData, pollInterval, timers,
                 socketVars, mounted, header, prevBadge, tabContent, rows, modal,
                 dashVars, inputVars,
                 consoleVars>>
  /\ alerted' = None
  /\ uncaught' = FALSE

(* ---- loadDashboardData after its await ---- *)
\* Without #stat-total it returns; else the counters' text is set and the
\* innerHTML of #servers-list is assigned: its child nodes are new ones.
LoadDashboardThen(r, servers, stats) ==
  /\ r.kind = "dash"
  /\ Resolves(r)
  /\ requests' = Drop(requests, r)
  /\ IF mounted = "dashboard"
     THEN /\ counters' = [shown |-> TRUE, total |-> stats.total, running |-> stats.running]
          /\ rows' = servers
          /\ listNodes' = 1 - listNodes
     ELSE UNCHANGED <<counters, rows, listNodes>>
  /\ UNCHANGED <<token, stored, sessionVars, serverData, pollInterval, timers,
                 socketVars, mounted, header, prevBadge, tabContent, modal,
                 inputVars,
                 consoleVars>>
  /\ alerted' = None
  /\ uncaught' = FALSE

\* A catch block of loadDashboardData that stops the poll.
LoadDashboardCatchStops(r) ==
  /\ r.kind = "dash"
  /\ Rejects(r)
  /\ requests' = Drop(requests, r)
  /\ timers' = ClearInterval(timers, pollInterval)
  /\ pollInterval' = 0
  /\ UNCHANGED <<token, stored, sessionVars, serverData, socketVars, mounted,
                 header, prevBadge, tabContent, rows, modal, dashVars, inputVars,
                 consoleVars>>
  /\ alerted' = None
  /\ uncaught' = FALSE

\* The catch block of loadDashboardData is empty.
LoadDashboardCatch(r) ==
  /\ r.kind = "dash"
  /\ Rejects(r)
  /\ requests' = Drop(requests, r)
  /\ UNCHANGED <<token, stored, sessionVars, serverData, pollInterval, timers,
                 socketVars, mounted, header, prevBadge, tabContent, rows, modal,
                 dashVars, inputVars,
                 consoleVars>>
  /\ alerted' = None
  /\ uncaught' = FALSE

(* ---- login ---- *)
SubmitLogin ==
  /\ mounted = "login"
  /\ Room(requests)
  /\ requests' = Issue(requests, Req("login", None, FALSE))
  /\ UNCHANGED <<token, stored, sessionVars, serverData, pollInterval, timers,
                 socketVars, mounted, header, prevBadge, tabContent, rows, modal,
                 dashVars, inputVars,
                 consoleVars>>
  /\ alerted' = None
  /\ uncaught' = FALSE

\* What api.login may resolve to: an object with a token, an object without
\* one, or null (a 204, or a body that is not JSON).
LoginBodies == {"token", "no-token", "null"}
\* res.token: the field, or undefined (absent, as null is).
TokenField(body) == IF body = "token" THEN Tok ELSE None
\* localStorage.setItem('token', v) stores String(v).
SetItem(v) == IF v = None THEN "undefined" ELSE v

\* The login handler after its await, given the body of the response: null
\* throws at res.token, into the catch block.
LoginWith(r, body) ==
  /\ r.kind = "login"
  /\ Resolves(r)
  /\ IF body = "null"
     THEN /\ requests' = Drop(requests, r)
          /\ alerted' = None
          /\ uncaught' = FALSE
          /\ UNCHANGED <<token, stored, pollInterval, timers, mounted, header, prevBadge,
                         tabContent, rows, modal, dashVars, inputVars, consoleVars>>
     ELSE /\ token' = TokenField(body)
          /\ stored' = SetItem(TokenField(body))
          /\ DoRender(TokenField(body), currentView, currentServer, pollInterval, timers,
                      Drop(requests, r))
  /\ UNCHANGED <<sessionVars, serverData, socketVars>>

\* The login handler after its await, the response being {token: "abc"}.
LoginThen(r) ==
  /\ r.kind = "login"
  /\ Resolves(r)
  /\ token' = Tok
  /\ stored' = Tok
  /\ DoRender(Tok, currentView, currentServer, pollInterval, timers, Drop(requests, r))
  /\ UNCHANGED <<sessionVars, serverData, socketVars>>

LoginCatch(r) ==
  /\ r.kind = "login"
  /\ Rejects(r)
  /\ requests' = Drop(requests, r)
  /\ UNCHANGED <<token, stored, sessionVars, serverData, pollInterval, timers,
                 socketVars, mounted, header, prevBadge, tabContent, rows, modal,
                 dashVars, inputVars,
                 consoleVars>>
  /\ alerted' = None
  /\ uncaught' = FALSE

(* ---- start / stop / restart / delete ---- *)
\* A click on a button of the header's button group.
HandleAction(kind) ==
  /\ header # EmptyHeader
  /\ kind \in {"start", "stop"} => header.btn = kind
  /\ Room(requests)
  /\ requests' = Issue(requests, Req(kind, currentServer, FALSE))
  /\ UNCHANGED <<token, stored, sessionVars, serverData, pollInterval, timers,
                 socketVars, mounted, header, prevBadge, tabContent, rows, modal,
                 dashVars, inputVars,
                 consoleVars>>
  /\ alerted' = None
  /\ uncaught' = FALSE

\* handleStart / handleStop / handleRestart after the await: badge, then loadServerData(false).
ActionThen(r) ==
  /\ r.kind \in {"start", "stop", "restart"}
  /\ Resolves(r)
  /\ header' = CASE r.kind = "start" -> Optimistic(header, "starting", "badge-success")
                 [] r.kind = "stop" -> Optimistic(header, "stopping", "badge-error")
                 [] OTHER -> header
  /\ prevBadge' = IF r.kind # "restart" /\ header # EmptyHeader THEN header.text ELSE prevBadge
  /\ requests' = IF currentServer # None
                 THEN Issue(Drop(requests, r), Req("getServer", currentServer, FALSE))
                 ELSE Drop(requests, r)
  /\ UNCHANGED <<token, stored, sessionVars, serverData, pollInterval, timers,
                 socketVars, mounted, tabContent, rows, modal,
                 dashVars, inputVars,
                 consoleVars>>
  /\ alerted' = None
  /\ uncaught' = FALSE

\* handleDeleteServer after the await.
DeleteThen(r) ==
  /\ r.kind = "delete"
  /\ Resolves(r)
  /\ navigateTo("dashboard", None, Drop(requests, r))

\* Catch blocks of the four handlers that swallow the error.
ActionCatchSilent(r) ==
  /\ r.kind \in {"start", "stop", "restart", "delete"}
  /\ Rejects(r)
  /\ requests' = Drop(requests, r)
  /\ alerted' = None
  /\ uncaught' = FALSE
  /\ UNCHANGED <<token, stored, sessionVars, serverData, pollInterval, timers,
                 socketVars, mounted, header, prevBadge, tabContent, rows, modal,
                 dashVars, inputVars, consoleVars>>

\* The catch blocks of the four handlers: alert(e.message).
ActionCatch(r) ==
  /\ r.kind \in {"start", "stop", "restart", "delete"}
  /\ Rejects(r)
  /\ requests' = Drop(requests, r)
  /\ alerted' = "e.message"
  /\ uncaught' = FALSE
  /\ UNCHANGED <<token, stored, sessionVars, serverData, pollInterval, timers,
                 socketVars, mounted, header, prevBadge, tabContent, rows, modal,
                 dashVars, inputVars, consoleVars>>

(* ---- the modal container ---- *)
\* A show function that adds its overlay to the container's content.
OpenModalAppend(cur, m) == cur \cup {m}
\* modal.innerHTML = `...`: the overlay replaces the container's content.
OpenModal(cur, m) == {m}

\* A call of closeModal() inside a handler, the requests being reqs: without
\* #modal-container (login view) it throws and the handler's remaining
\* statements are skipped.
CloseModalIn(reqs) ==
  IF mounted = "login"
  THEN /\ requests' = reqs
       /\ UNCHANGED <<modal, submitted, editor>>
  ELSE /\ modal' = {}
       /\ submitted' = None
       /\ editor' = NoEditor
       /\ requests' = Detach(reqs)

\* updateVersionSelector up to its await (the create form is mounted).
updateVersionSelector ==
  /\ "create" \in modal
  /\ Room(requests)
  /\ requests' = Issue(requests, Req("getVersions", None, FALSE))
  /\ UNCHANGED <<token, stored, sessionVars, serverData, pollInterval, timers,
                 socketVars, mounted, header, prevBadge, tabContent, rows, modal,
                 dashVars, inputVars,
                 consoleVars>>
  /\ alerted' = None
  /\ uncaught' = FALSE

\* "+ Create Server" on the dashboard: the modal, then updateVersionSelector().
showCreateModal ==
  /\ mounted = "dashboard"
  /\ Room(requests)
  /\ modal' = OpenModal(modal, "create")
  /\ submitted' = None
  /\ editor' = NoEditor
  /\ requests' = Issue(Detach(requests), Req("getVersions", None, FALSE))
  /\ UNCHANGED <<token, stored, sessionVars, serverData, pollInterval, timers,
                 socketVars, mounted, header, prevBadge, tabContent, rows,
                 dashVars, consoleIn, lastSend,
                 consoleVars>>
  /\ alerted' = None
  /\ uncaught' = FALSE

\* updateVersionSelector after its await writes into the elements it captured.
VersionsSettled(r) ==
  /\ r.kind = "getVersions"
  /\ (Resolves(r) \/ Rejects(r))
  /\ requests' = Drop(requests, r)
  /\ UNCHANGED <<token, stored, sessionVars, serverData, pollInterval, timers,
                 socketVars, mounted, header, prevBadge, tabContent, rows, modal,
                 dashVars, inputVars,
                 consoleVars>>
  /\ alerted' = None
  /\ uncaught' = FALSE

\* Submit of the create form (the state of its button is not modelled).
handleCreate ==
  /\ "create" \in modal
  /\ Room(requests)
  /\ requests' = Issue(requests, Req("createServer", None, FALSE))
  /\ UNCHANGED <<token, stored, sessionVars, serverData, pollInterval, timers,
                 socketVars, mounted, header, prevBadge, tabContent, rows, modal,
                 dashVars, inputVars,
                 consoleVars>>
  /\ alerted' = None
  /\ uncaught' = FALSE

\* After the await: closeModal(), loadDashboardData().
CreateThen(r) ==
  /\ r.kind = "createServer"
  /\ Resolves(r)
  /\ IF mounted = "login"
     THEN CloseModalIn(Drop(requests, r))
     ELSE CloseModalIn(Issue(Drop(requests, r), Req("dash", None, FALSE)))
  /\ UNCHANGED <<token, stored, sessionVars, serverData, pollInterval, timers,
                 socketVars, mounted, header, prevBadge, tabContent, rows,
                 dashVars, consoleIn, lastSend,
                 consoleVars>>
  /\ alerted' = None
  /\ uncaught' = FALSE

CreateCatch(r) ==
  /\ r.kind = "createServer"
  /\ Rejects(r)
  /\ requests' = Drop(requests, r)
  /\ UNCHANGED <<token, stored, sessionVars, serverData, pollInterval, timers,
                 socketVars, mounted, header, prevBadge, tabContent, rows, modal,
                 dashVars, inputVars,
                 consoleVars>>
  /\ alerted' = None
  /\ uncaught' = FALSE

\* Click on a file of the files tab: the editor modal, then api.readFile.
\* The files of the server's directory, and what GET .../files/read returns as
\* data.content for each: two files whose texts differ.
Paths == {"a.txt", "b.txt"}
OnePath == {"a.txt"}
Content(path) == IF path = "a.txt" THEN "text of a.txt" ELSE "text of b.txt"

\* Click on a file of the list: the editor modal with an empty textarea and the
\* path in its Save button, then the read is issued.
openFile(path) ==
  /\ mounted = "server"
  /\ tabContent = "files"
  /\ Room(requests)
  /\ modal' = OpenModal(modal, "editor")
  /\ submitted' = None
  /\ editor' = [path |-> path, value |-> ""]
  /\ requests' = Issue(Detach(requests), FileReq("readFile", currentServer, path, None))
  /\ UNCHANGED <<token, stored, sessionVars, serverData, pollInterval, timers,
                 socketVars, mounted, header, prevBadge, tabContent, rows,
                 dashVars, consoleIn, lastSend,
                 consoleVars>>
  /\ alerted' = None
  /\ uncaught' = FALSE

\* document.getElementById('editor').value = v, on the editor that is mounted.
SetValue(ed, v) == [ed EXCEPT !.value = v]

\* After the await: the content goes into #editor; without #editor the write
\* throws into the catch block, alert and closeModal().
ReadThen(r) ==
  /\ r.kind = "readFile"
  /\ Resolves(r)
  /\ IF "editor" \in modal
     THEN /\ requests' = Drop(requests, r)
          /\ editor' = SetValue(editor, Content(r.path))
          /\ UNCHANGED <<modal, submitted>>
     ELSE CloseModalIn(Drop(requests, r))
  /\ UNCHANGED <<token, stored, sessionVars, serverData, pollInterval, timers,
                 socketVars, mounted, header, prevBadge, tabContent, rows,
                 dashVars, consoleIn, lastSend,
                 consoleVars>>
  /\ alerted' = None
  /\ uncaught' = FALSE

\* The catch block of openFile: alert, closeModal().
ReadCatch(r) ==
  /\ r.kind = "readFile"
  /\ Rejects(r)
  /\ CloseModalIn(Drop(requests, r))
  /\ UNCHANGED <<token, stored, sessionVars, serverData, pollInterval, timers,
                 socketVars, mounted, header, prevBadge, tabContent, rows,
                 dashVars, consoleIn, lastSend,
                 consoleVars>>
  /\ alerted' = None
  /\ uncaught' = FALSE

\* "Save" in the editor modal.
saveFile ==
  /\ "editor" \in modal
  /\ Room(requests)
  /\ requests' = Issue(requests, FileReq("writeFile", currentServer, editor.path, editor.value))
  /\ UNCHANGED <<token, stored, sessionVars, serverData, pollInterval, timers,
                 socketVars, mounted, header, prevBadge, tabContent, rows, modal,
                 dashVars, inputVars,
                 consoleVars>>
  /\ alerted' = None
  /\ uncaught' = FALSE

\* After the await: alert('Saved.'), closeModal().
WriteThen(r) ==
  /\ r.kind = "writeFile"
  /\ Resolves(r)
  /\ CloseModalIn(Drop(requests, r))
  /\ UNCHANGED <<token, stored, sessionVars, serverData, pollInterval, timers,
                 socketVars, mounted, header, prevBadge, tabContent, rows,
                 dashVars, consoleIn, lastSend,
                 consoleVars>>
  /\ alerted' = None
  /\ uncaught' = FALSE

WriteCatch(r) ==
  /\ r.kind = "writeFile"
  /\ Rejects(r)
  /\ requests' = Drop(requests, r)
  /\ UNCHANGED <<token, stored, sessionVars, serverData, pollInterval, timers,
                 socketVars, mounted, header, prevBadge, tabContent, rows, modal,
                 dashVars, inputVars,
                 consoleVars>>
  /\ alerted' = None
  /\ uncaught' = FALSE

(* ---- world upload ---- *)
\* What the file input of the upload form may hold at submit.
FileSelections == {None, "zip"}

showUploadWorldModal ==
  /\ mounted = "server"
  /\ tabContent = "worlds"
  /\ modal' = OpenModal(modal, "upload")
  /\ submitted' = None
  /\ editor' = NoEditor
  /\ requests' = Detach(requests)
  /\ UNCHANGED <<token, stored, sessionVars, serverData, pollInterval, timers,
                 socketVars, mounted, header, prevBadge, tabContent, rows,
                 dashVars, consoleIn, lastSend,
                 consoleVars>>
  /\ alerted' = None
  /\ uncaught' = FALSE

\* A click on Cancel, X or the overlay.
closeModal ==
  /\ modal # {}
  /\ CloseModalIn(requests)
  /\ UNCHANGED <<token, stored, sessionVars, serverData, pollInterval, timers,
                 socketVars, mounted, header, prevBadge, tabContent, rows,
                 dashVars, consoleIn, lastSend,
                 consoleVars>>
  /\ alerted' = None
  /\ uncaught' = FALSE

\* handleWorldUpload reading the file input: without the check of files[0].
FileChosenAlways(file) == TRUE
\* handleWorldUpload reading the file input: fileInput.files[0].
FileChosen(file) == file # None

\* Submit of the upload form (its button is enabled).
handleWorldUpload(file) ==
  /\ "upload" \in modal
  /\ submitted' = IF file = None THEN "empty" ELSE "file"
  /\ editor' = editor
  /\ IF ~FileChosen(file)
     THEN UNCHANGED <<modal, requests>>
     ELSE /\ Room(requests)
          /\ modal' = (modal \ {"upload"}) \cup {"upload-busy"}
          /\ requests' = Issue(requests, FormReq("upload", currentServer))
  /\ UNCHANGED <<token, stored, sessionVars, serverData, pollInterval, timers,
                 socketVars, mounted, header, prevBadge, tabContent, rows,
                 dashVars, consoleIn, lastSend,
                 consoleVars>>
  /\ alerted' = None
  /\ uncaught' = FALSE

\* After the await: closeModal(), loadWorlds().  Without #modal-container
\* closeModal throws into the catch block.
UploadThen(r) ==
  /\ r.kind = "upload"
  /\ UploadResolves(r)
  /\ IF mounted = "server" /\ tabContent = "worlds"
     THEN CloseModalIn(Issue(Drop(requests, r), Req("listWorlds", currentServer, FALSE)))
     ELSE CloseModalIn(Drop(requests, r))
  /\ UNCHANGED <<token, stored, sessionVars, serverData, pollInterval, timers,
                 socketVars, mounted, header, prevBadge, tabContent, rows,
                 dashVars, consoleIn, lastSend,
                 consoleVars>>
  /\ alerted' = None
  /\ uncaught' = FALSE

\* The catch block: alert, then the captured button is enabled again.
UploadCatch(r) ==
  /\ r.kind = "upload"
  /\ UploadRejects(r)
  /\ requests' = Drop(requests, r)
  /\ modal' = IF r.form THEN (modal \ {"upload-busy"}) \cup {"upload"} ELSE modal
  /\ UNCHANGED <<token, stored, sessionVars, serverData, pollInterval, timers,
                 socketVars, mounted, header, prevBadge, tabContent, rows,
                 dashVars, inputVars,
                 consoleVars>>
  /\ alerted' = None
  /\ uncaught' = FALSE

(* ---- the console form ---- *)
\* What the operator may type into #console-in.
ConsoleTexts == {"", "list"}

TypeCommand(text) ==
  /\ mounted = "server"
  /\ tabContent = "console"
  /\ consoleIn' = text
  /\ UNCHANGED <<token, stored, sessionVars, serverData, pollInterval, timers,
                 socketVars, mounted, header, prevBadge, tabContent, rows, modal,
                 dashVars, submitted, lastSend, editor, requests,
                 consoleVars>>
  /\ alerted' = None
  /\ uncaught' = FALSE

\* readyState of the socket the variable ws holds.
ReadyState(socks, w) ==
  IF w = 0 THEN "absent" ELSE (CHOOSE s \in socks : s.id = w).st
\* sendConsole's test without ws.readyState === 1.
SendReadyAny(st) == st # "absent"
\* sendConsole's test of the socket: ws && ws.readyState === 1.
SendReady(st) == st = "open"

\* Submit of the console form.
sendConsole ==
  /\ mounted = "server"
  /\ tabContent = "console"
  /\ lastSend' = [st |-> ReadyState(sockets, ws), text |-> consoleIn]
  /\ IF SendReady(ReadyState(sockets, ws)) /\ consoleIn # ""
     THEN /\ \A s \in sockets : s.id = ws => s.out < MaxFrames
          /\ sockets' = {IF s.id = ws THEN [s EXCEPT !.out = s.out + 1] ELSE s : s \in sockets}
          /\ consoleIn' = ""
     ELSE UNCHANGED <<sockets, consoleIn>>
  /\ UNCHANGED <<token, stored, sessionVars, serverData, pollInterval, timers, ws,
                 mounted, header, prevBadge, tabContent, rows, modal,
                 dashVars, submitted, editor, requests,
                 consoleVars>>
  /\ alerted' = None
  /\ uncaught' = FALSE

(* ---- the network side of the console socket ---- *)
SocketOpens(s) ==
  /\ s \in sockets
  /\ s.st = "connecting"
  /\ sockets' = (sockets \ {s}) \cup {[s EXCEPT !.st = "open"]}
  /\ UNCHANGED <<token, stored, sessionVars, serverData, pollInterval, timers, ws,
                 mounted, header, prevBadge, tabContent, rows, modal, requests,
                 dashVars, inputVars,
                 consoleVars>>
  /\ alerted' = None
  /\ uncaught' = FALSE

\* What the server may send down the console socket.
Frames == {"a", "b"}
\* An onmessage handler that puts the new line first.
AppendLinePrepends(log, data) == <<data>> \o log
\* ws.onmessage: a div with the frame's text becomes the last child of out.
AppendLine(log, data) == Append(log, data)

\* A frame arrives: onmessage appends to the #console-out it captured in
\* setupConsole, which is the mounted one or a detached one.
SocketReceives(s, data) ==
  /\ s \in sockets
  /\ s.st = "open"
  /\ IF consoleOut = s.id
     THEN /\ Len(transcript) < MaxLines
          /\ transcript' = AppendLine(transcript, data)
     ELSE UNCHANGED transcript
  /\ alerted' = None
  /\ uncaught' = FALSE
  /\ UNCHANGED <<token, stored, sessionVars, serverData, pollInterval, timers,
                 socketVars, mounted, header, prevBadge, tabContent, rows, modal, requests,
                 dashVars, inputVars, consoleOut>>

\* An onclose handler that opens the next socket.
SocketClosesReconnects(s) ==
  /\ s \in sockets
  /\ s.st # "closed"
  /\ LET closed == (sockets \ {s}) \cup {[s EXCEPT !.st = "closed"]} IN
       IF s.id = ws /\ FreeSocketIds(closed) # {}
       THEN LET c == setupConsoleNoClose(closed, ws, s.sid) IN
              /\ ws' = c.ws
              /\ sockets' = c.sockets
       ELSE /\ sockets' = Collect(closed, ws)
            /\ ws' = ws
  /\ alerted' = None
  /\ uncaught' = FALSE
  /\ UNCHANGED <<token, stored, sessionVars, serverData, pollInterval, timers,
                 mounted, header, prevBadge, tabContent, rows, modal, requests,
                 dashVars, inputVars, consoleVars>>

\* The closing handshake completes, the peer drops the connection, or it fails:
\* no onclose or onerror handler is set.
SocketCloses(s) ==
  /\ s \in sockets
  /\ s.st # "closed"
  /\ sockets' = Collect((sockets \ {s}) \cup {[s EXCEPT !.st = "closed"]}, ws)
  /\ UNCHANGED <<token, stored, sessionVars, serverData, pollInterval, timers, ws,
                 mounted, header, prevBadge, tabContent, rows, modal, requests,
                 dashVars, inputVars,
                 consoleVars>>
  /\ alerted' = None
  /\ uncaught' = FALSE

(* ---- the session lifecycle: every handler; the snapshots all carry one state, ---- *)
(* ---- and the header's start / stop / restart buttons are left to SpecHeader   ---- *)
LifecycleStates == {"running"}

Next ==
  \/ NavigateDashboard
  \/ \E s \in Servers : NavigateServer(s)
  \/ \E t \in Tabs : setTab(t)
  \/ logout
  \/ \E r \in InFlight, status \in Statuses : ApiRespond(r, status)
  \/ \E r \in InFlight, status \in Statuses : UploadRespond(r, status)
  \/ \E t \in timers : Tick(t)
  \/ \E r \in InFlight, st \in LifecycleStates : LoadServerDataThen(r, st)
  \/ \E r \in InFlight : LoadServerDataCatch(r)
  \/ \E r \in InFlight : TabLoadSettled(r)
  \/ \E r \in InFlight, servers \in ServerLists, stats \in SomeStats :
       LoadDashboardThen(r, servers, stats)
  \/ \E r \in InFlight : LoadDashboardCatch(r)
  \/ SubmitLogin
  \/ \E r \in InFlight : LoginThen(r)
  \/ \E r \in InFlight : LoginCatch(r)
  \/ HandleAction("delete")
  \/ \E r \in InFlight : DeleteThen(r)
  \/ \E r \in InFlight : ActionCatch(r)
  \/ showUploadWorldModal
  \/ closeModal
  \/ \E file \in FileSelections : handleWorldUpload(file)
  \/ \E r \in InFlight : UploadThen(r)
  \/ \E r \in InFlight : UploadCatch(r)
  \/ \E s \in sockets : SocketOpens(s)
  \/ \E s \in sockets : SocketCloses(s)

Spec == Init /\ [][Next]_vars

(* ---- the console socket: navigation between both servers, two of the ---- *)
(* ---- tabs, the poll ticks and every getServer response; always logged in ---- *)
ConsoleTabs == {"console", "files"}

NextConsole ==
  \/ NavigateDashboard
  \/ \E s \in Servers : NavigateServer(s)
  \/ \E t \in ConsoleTabs : setTab(t)
  \/ \E t \in timers : Tick(t)
  \/ \E r \in InFlight, st \in LifecycleStates : LoadServerDataThen(r, st)
  \/ \E r \in InFlight : LoadServerDataCatch(r)
  \/ \E r \in InFlight : TabLoadSettled(r)
  \/ \E r \in InFlight, servers \in ServerLists, stats \in SomeStats :
       LoadDashboardThen(r, servers, stats)
  \/ \E r \in InFlight : LoadDashboardCatch(r)
  \/ \E s \in sockets : SocketOpens(s)
  \/ \E s \in sockets : SocketCloses(s)

SpecConsole == Init /\ [][NextConsole]_vars

(* ---- api.request's failure policy: login, logout, 401 on every call of a ---- *)
(* ---- session that manages one server                                     ---- *)
OneServer == {"s1"}

NextAuth ==
  \/ NavigateDashboard
  \/ \E s \in OneServer : NavigateServer(s)
  \/ \E t \in ConsoleTabs : setTab(t)
  \/ logout
  \/ \E r \in InFlight, status \in Statuses : ApiRespond(r, status)
  \/ \E t \in timers : Tick(t)
  \/ \E r \in InFlight, st \in LifecycleStates : LoadServerDataThen(r, st)
  \/ \E r \in InFlight : LoadServerDataCatch(r)
  \/ \E r \in InFlight : TabLoadSettled(r)
  \/ \E r \in InFlight, servers \in ServerLists, stats \in SomeStats :
       LoadDashboardThen(r, servers, stats)
  \/ \E r \in InFlight : LoadDashboardCatch(r)
  \/ SubmitLogin
  \/ \E r \in InFlight : LoginThen(r)
  \/ \E r \in InFlight : LoginCatch(r)
  \/ HandleAction("delete")
  \/ \E r \in InFlight : DeleteThen(r)
  \/ \E r \in InFlight : ActionCatch(r)
  \/ \E s \in sockets : SocketCloses(s)

SpecAuth == Init /\ [][NextAuth]_vars

(* ---- the server-detail header: every snapshot state and the start / stop / ---- *)
(* ---- restart handlers on one server; always logged in                      ---- *)
NextHeader ==
  \/ NavigateDashboard
  \/ \E s \in OneServer : NavigateServer(s)
  \/ \E t \in ConsoleTabs : setTab(t)
  \/ \E t \in timers : Tick(t)
  \/ \E r \in InFlight, st \in States : LoadServerDataThen(r, st)
  \/ \E r \in InFlight : LoadServerDataCatch(r)
  \/ \E r \in InFlight : TabLoadSettled(r)
  \/ \E r \in InFlight, servers \in ServerLists, stats \in SomeStats :
       LoadDashboardThen(r, servers, stats)
  \/ \E r \in InFlight : LoadDashboardCatch(r)
  \/ \E k \in {"start", "stop", "restart"} : HandleAction(k)
  \/ \E r \in InFlight : ActionThen(r)
  \/ \E r \in InFlight : ActionCatch(r)
  \/ \E s \in sockets : SocketCloses(s)

SpecHeader == Init /\ [][NextHeader]_vars

(* ---- the two polls: navigation between the dashboard and one server, the ---- *)
(* ---- ticks and every outcome of their fetches, snapshots of both states; ---- *)
(* ---- always logged in                                                    ---- *)
NextPoll ==
  \/ NavigateDashboard
  \/ \E s \in OneServer : NavigateServer(s)
  \/ \E t \in ConsoleTabs : setTab(t)
  \/ \E t \in timers : Tick(t)
  \/ \E r \in InFlight, st \in States : LoadServerDataThen(r, st)
  \/ \E r \in InFlight : LoadServerDataCatch(r)
  \/ \E r \in InFlight : TabLoadSettled(r)
  \/ \E r \in InFlight, servers \in ServerLists, stats \in FleetStats :
       LoadDashboardThen(r, servers, stats)
  \/ \E r \in InFlight : LoadDashboardCatch(r)
  \/ \E s \in sockets : SocketCloses(s)

SpecPoll == Init /\ [][NextPoll]_vars

(* ---- the modals: the create, editor and upload overlays on one server, ---- *)
(* ---- with login and logout; no poll ticks                              ---- *)
ModalTabs == {"files", "worlds"}

NextModal ==
  \/ NavigateDashboard
  \/ \E s \in OneServer : NavigateServer(s)
  \/ \E t \in ModalTabs : setTab(t)
  \/ logout
  \/ SubmitLogin
  \/ \E r \in InFlight : LoginThen(r)
  \/ \E r \in InFlight : LoginCatch(r)
  \/ \E r \in InFlight, st \in LifecycleStates : LoadServerDataThen(r, st)
  \/ \E r \in InFlight : LoadServerDataCatch(r)
  \/ \E r \in InFlight : TabLoadSettled(r)
  \/ \E r \in InFlight, servers \in ServerLists, stats \in SomeStats :
       LoadDashboardThen(r, servers, stats)
  \/ \E r \in InFlight : LoadDashboardCatch(r)
  \/ showCreateModal
  \/ updateVersionSelector
  \/ \E r \in InFlight : VersionsSettled(r)
  \/ handleCreate
  \/ \E r \in InFlight : CreateThen(r)
  \/ \E r \in InFlight : CreateCatch(r)
  \/ \E p \in OnePath : openFile(p)
  \/ \E r \in InFlight : ReadThen(r)
  \/ \E r \in InFlight : ReadCatch(r)
  \/ saveFile
  \/ \E r \in InFlight : WriteThen(r)
  \/ \E r \in InFlight : WriteCatch(r)
  \/ showUploadWorldModal
  \/ closeModal
  \/ \E file \in FileSelections : handleWorldUpload(file)
  \/ \E r \in InFlight, status \in Statuses : UploadRespond(r, status)
  \/ \E r \in InFlight : UploadThen(r)
  \/ \E r \in InFlight : UploadCatch(r)
  \/ \E s \in sockets : SocketCloses(s)

SpecModal == Init /\ [][NextModal]_vars

(* ---- the console form: typing and sending on one server while the ---- *)
(* ---- socket connects, opens and closes; always logged in, no ticks ---- *)
NextSend ==
  \/ NavigateDashboard
  \/ \E s \in OneServer : NavigateServer(s)
  \/ \E t \in ConsoleTabs : setTab(t)
  \/ \E r \in InFlight, st \in LifecycleStates : LoadServerDataThen(r, st)
  \/ \E r \in InFlight : LoadServerDataCatch(r)
  \/ \E r \in InFlight : TabLoadSettled(r)
  \/ \E r \in InFlight, servers \in ServerLists, stats \in SomeStats :
       LoadDashboardThen(r, servers, stats)
  \/ \E r \in InFlight : LoadDashboardCatch(r)
  \/ \E text \in ConsoleTexts : TypeCommand(text)
  \/ sendConsole
  \/ \E s \in sockets : SocketOpens(s)
  \/ \E s \in sockets : SocketCloses(s)

SpecSend == Init /\ [][NextSend]_vars

(* ---- the console transcript: the socket connects, opens, receives and ---- *)
(* ---- closes on one server, with the poll ticks; always logged in       ---- *)
NextSession ==
  \/ NavigateDashboard
  \/ \E s \in OneServer : NavigateServer(s)
  \/ \E t \in ConsoleTabs : setTab(t)
  \/ \E t \in timers : Tick(t)
  \/ \E r \in InFlight, st \in LifecycleStates : LoadServerDataThen(r, st)
  \/ \E r \in InFlight : LoadServerDataCatch(r)
  \/ \E r \in InFlight : TabLoadSettled(r)
  \/ \E r \in InFlight, servers \in ServerLists, stats \in SomeStats :
       LoadDashboardThen(r, servers, stats)
  \/ \E r \in InFlight : LoadDashboardCatch(r)
  \/ \E s \in sockets : SocketOpens(s)
  \/ \E s \in sockets, data \in Frames : SocketReceives(s, data)
  \/ \E s \in sockets : SocketCloses(s)

SpecSession == Init /\ [][NextSession]_vars

(* ---- what opens a socket: the console form and the poll ticks on one ---- *)
(* ---- server while the socket connects, opens and closes; logged in   ---- *)
NextReconnect ==
  \/ NavigateDashboard
  \/ \E s \in OneServer : NavigateServer(s)
  \/ \E t \in ConsoleTabs : setTab(t)
  \/ \E t \in timers : Tick(t)
  \/ \E r \in InFlight, st \in LifecycleStates : LoadServerDataThen(r, st)
  \/ \E r \in InFlight : LoadServerDataCatch(r)
  \/ \E r \in InFlight : TabLoadSettled(r)
  \/ \E r \in InFlight, servers \in ServerLists, stats \in SomeStats :
       LoadDashboardThen(r, servers, stats)
  \/ \E r \in InFlight : LoadDashboardCatch(r)
  \/ \E text \in ConsoleTexts : TypeCommand(text)
  \/ sendConsole
  \/ \E s \in sockets : SocketOpens(s)
  \/ \E s \in sockets : SocketCloses(s)

SpecReconnect == Init /\ [][NextReconnect]_vars

(* ---- the header's buttons: start, stop, restart and delete on one server, ---- *)
(* ---- every outcome of their requests, the 401 included; no poll ticks     ---- *)
NextAction ==
  \/ NavigateDashboard
  \/ \E s \in OneServer : NavigateServer(s)
  \/ \E r \in InFlight, status \in Statuses : ApiRespond(r, status)
  \/ \E r \in InFlight, st \in States : LoadServerDataThen(r, st)
  \/ \E r \in InFlight : LoadServerDataCatch(r)
  \/ \E r \in InFlight, servers \in ServerLists, stats \in SomeStats :
       LoadDashboardThen(r, servers, stats)
  \/ \E r \in InFlight : LoadDashboardCatch(r)
  \/ \E k \in {"start", "stop", "restart", "delete"} : HandleAction(k)
  \/ \E r \in InFlight : ActionThen(r)
  \/ \E r \in InFlight : DeleteThen(r)
  \/ \E r \in InFlight : ActionCatch(r)
  \/ \E s \in sockets : SocketCloses(s)

SpecAction == Init /\ [][NextAction]_vars

(* ---- the credential: login with every body of the response, logout and ---- *)
(* ---- the 401 of every call, on the dashboard and one server; no ticks   ---- *)
NextLogin ==
  \/ NavigateDashboard
  \/ \E s \in OneServer : NavigateServer(s)
  \/ logout
  \/ \E r \in InFlight, status \in Statuses : ApiRespond(r, status)
  \/ \E r \in InFlight, st \in LifecycleStates : LoadServerDataThen(r, st)
  \/ \E r \in InFlight : LoadServerDataCatch(r)
  \/ \E r \in InFlight, servers \in ServerLists, stats \in SomeStats :
       LoadDashboardThen(r, servers, stats)
  \/ \E r \in InFlight : LoadDashboardCatch(r)
  \/ SubmitLogin
  \/ \E r \in InFlight, body \in LoginBodies : LoginWith(r, body)
  \/ \E r \in InFlight : LoginCatch(r)
  \/ \E s \in sockets : SocketCloses(s)

SpecLogin == Init /\ [][NextLogin]_vars

(* ---- the file editor: two files of one server opened, closed and saved, ---- *)
(* ---- the reads and writes answered in every order; no poll ticks       ---- *)
EditorTabs == {"files"}

NextEditor ==
  \/ NavigateDashboard
  \/ \E s \in OneServer : NavigateServer(s)
  \/ \E t \in EditorTabs : setTab(t)
  \/ \E r \in InFlight, st \in LifecycleStates : LoadServerDataThen(r, st)
  \/ \E r \in InFlight : LoadServerDataCatch(r)
  \/ \E r \in InFlight : TabLoadSettled(r)
  \/ \E r \in InFlight, servers \in ServerLists, stats \in SomeStats :
       LoadDashboardThen(r, servers, stats)
  \/ \E r \in InFlight : LoadDashboardCatch(r)
  \/ \E p \in Paths : openFile(p)
  \/ \E r \in InFlight : ReadThen(r)
  \/ \E r \in InFlight : ReadCatch(r)
  \/ saveFile
  \/ \E r \in InFlight : WriteThen(r)
  \/ \E r \in InFlight : WriteCatch(r)
  \/ closeModal
  \/ \E s \in sockets : SocketCloses(s)

SpecEditor == Init /\ [][NextEditor]_vars

(* ======================= the claims ======================= *)

\* A request on which a 401 arrives in this step.
Gets401(r) == r.status = 401 /\ r \notin InFlight

\* C1: at most one poll timer is active at any instant.
C1_AtMostOnePollTimer == Cardinality(timers) <= 1

\* C2: at most one console socket on which close() has not been called exists
\* at any instant, and it is the one the variable ws holds.
C2_AtMostOneLiveSocket ==
  /\ Cardinality(NotClosed(sockets)) <= 1
  /\ \A s \in NotClosed(sockets) : s.id = ws
\* setupConsole has closed the previous socket and opened the next one.
C2_Witness ==
  /\ \E s \in sockets : s.st = "closing"
  /\ \E s \in NotClosed(sockets) : s.id = ws

\* C3: while the server view is current with tab console, an open console
\* socket is addressed to state.currentServer.
C3_OpenSocketIsCurrentServer ==
  (currentView = "server" /\ currentTab = "console" /\ mounted = "server")
    => \A s \in sockets : s.st = "open" => s.sid = currentServer

\* C4: leaving the console tab (setTab to another tab, or navigation away from
\* the server view) closes the console socket and opens no new one.
C4_LeavingConsoleClosesSocket ==
  [][(mounted = "server" /\ currentTab = "console"
        /\ (currentTab' # "console" \/ currentView' # "server"))
       => (NotClosed(sockets') = {} /\ ws' = ws)]_vars

\* C5: a 401 response to any call in flight, through api.request or through
\* api.uploadWorld, clears the credential in memory and in storage and mounts
\* the login view.
C5_Any401LogsOut ==
  [][\A r \in InFlight' :
       Gets401(r) => (token' = None /\ stored' = None /\ mounted' = "login")]_vars

\* C6: on a 401 in api.request the credential is cleared and the login view
\* rendered in the step the response arrives, before the caller resumes, and
\* the call is rejected: only the caller's catch block can run.
C6_AuthFailureTearsDownThenThrows ==
  [][\A r \in InFlight' :
       (r.kind \in ApiKinds /\ Gets401(r))
         => (token' = None /\ stored' = None /\ mounted' = "login"
             /\ r.phase = "rejected")]_vars
\* A call through api.request is suspended with its 401 handled and not yet thrown.
C6_Witness ==
  \E r \in InFlight :
    /\ r.kind \in ApiKinds /\ r.status = 401 /\ r.phase = "rejected"
    /\ token = None /\ stored = None /\ mounted = "login"

\* C7: after logout() the credential is absent in memory and in storage, no
\* poll timer is active, no console socket is open, and the login view is mounted.
C7_LogoutTearsDown ==
  [][logout => (token' = None /\ stored' = None /\ mounted' = "login"
                /\ timers' = {} /\ NotClosed(sockets') = {})]_vars

\* C8: after a 401 from a request no poll timer remains active and no console
\* socket remains open.
C8_AuthFailureTearsDown ==
  [][\A r \in InFlight' :
       (r.kind \in ApiKinds /\ Gets401(r))
         => (timers' = {} /\ NotClosed(sockets') = {})]_vars

\* C9: applying one snapshot to the mounted header twice shows what applying
\* it once shows: badge text and class, start/stop button and info line.
C9_PatchIdempotent ==
  mounted = "server" =>
    \A id \in Servers, st \in States :
      LET s == [id |-> id, state |-> st]
          once == ApplySnapshot(header, s)
      IN Visible(ApplySnapshot(once, s)) = Visible(once)
\* A snapshot was patched into a header that already showed its state, and the
\* header shows what the snapshot alone gives.
C9_Witness ==
  /\ mounted = "server"
  /\ header # EmptyHeader
  /\ prevBadge = header.text
  /\ header.info = serverData.id
  /\ Visible(header) = Visible(ApplySnapshot(EmptyHeader, serverData))

\* C10: a snapshot applied to the mounted header overwrites the badge, an
\* optimistic "starting" / "stopping" included: the badge shows the snapshot's state.
C10_SnapshotSupersedesOptimistic ==
  [][(mounted = "server" /\ \E r \in InFlight, st \in States : LoadServerDataThen(r, st))
       => (/\ header'.text = serverData'.state
           /\ header'.class = BadgeClass(serverData'.state)
           /\ header'.text \notin {"starting", "stopping"})]_vars
\* The latest header write replaced the optimistic "stopping" by the snapshot's "stopped".
C10_Witness ==
  /\ mounted = "server"
  /\ prevBadge = "stopping"
  /\ header.text = "stopped"
  /\ serverData.state = "stopped"

\* C11: whenever a login request succeeds, the token is stored in memory and in
\* localStorage, the dashboard view is mounted, and the poll that was started
\* runs at the dashboard cadence, 3000 ms.
C11_LoginMountsDashboard ==
  [][(\E r \in InFlight : LoginThen(r))
       => (/\ token' = Tok /\ stored' = Tok
           /\ mounted' = "dashboard"
           /\ \E t \in timers' : t.id = pollInterval' /\ Cadence(t.kind) = 3000)]_vars

\* C12: a successful tick of the fleet poll, arriving on a dashboard that displays
\* the rows of the servers it reports, sets the counters to the reported
\* total_servers and running_servers and does not rebuild #servers-list: the
\* row nodes displayed stay the same nodes.
C12_TickKeepsRows ==
  [][\A r \in InFlight, servers \in ServerLists, stats \in FleetStats :
       (r.tick /\ mounted = "dashboard" /\ rows # {} /\ servers = rows
          /\ LoadDashboardThen(r, servers, stats))
         => (/\ counters' = [shown |-> TRUE, total |-> stats.total, running |-> stats.running]
             /\ listNodes' = listNodes)]_vars

\* C13: handleWorldUpload with no file selected issues no request and changes
\* nothing: the button stays enabled, the modal stays open, every other part of
\* the state is as it was.
C13_EmptyUploadIsNoOp ==
  [][handleWorldUpload(None)
       => (/\ requests' = requests
           /\ modal' = modal
           /\ UNCHANGED <<token, stored, sessionVars, serverData, pollInterval, timers,
                          socketVars, mounted, header, prevBadge, tabContent, rows,
                          dashVars, consoleIn, lastSend>>)]_vars
\* The upload form was submitted with no file: the modal is open with its button
\* enabled and no upload is in flight.
C13_Witness ==
  /\ submitted = "empty"
  /\ modal = {"upload"}
  /\ \A r \in InFlight : r.kind # "upload"

\* C14: while the credential is absent the login view is mounted, and no step
\* taken without the credential (a response that arrives late for a poll tick, a
\* mount fetch, a tab load or an action) mounts authenticated content or
\* creates a socket.
C14_NoCredentialOnlyLogin ==
  /\ [](token = None => mounted = "login")
  /\ [][(token = None /\ token' = None)
          => (/\ mounted' = "login"
              /\ header' = EmptyHeader /\ tabContent' = "empty"
              /\ rows' = {} /\ ~counters'.shown /\ modal' = {}
              /\ \A s \in sockets' : s.st = "connecting" => s \in sockets)]_vars
\* Logged out from the console tab of the server view: a snapshot was stored,
\* every response has arrived, and no socket was ever created.
C14_Witness ==
  /\ token = None /\ mounted = "login"
  /\ currentView = "server" /\ currentTab = "console"
  /\ serverData # NoData
  /\ ws = 0 /\ sockets = {}
  /\ requests = EmptyBag

\* C15: whenever state.serverData and state.currentServer are both present,
\* serverData.id equals currentServer.
C15_SnapshotIsCurrentServer ==
  (serverData # NoData /\ currentServer # None) => serverData.id = currentServer

\* C16: the upload path behaves like api.request: for every credential state
\* it sends the Authorization header api.request sends (none without a
\* credential), and a response that is not ok gives the caller the same error
\* and has the same global effect, the logout on a 401.
C16_UploadSharesRequestPolicy ==
  [][\A r \in InFlight' :
       (r.kind = "upload" /\ r.status # 0 /\ r \notin InFlight)
         => (/\ \A tok \in {None, Tok} : UploadAuthHeader(tok) = AuthHeader(tok)
             /\ UploadFailure(r.status) = ApiFailure(r.status)
             /\ ApiAuthFailure(r.status)
                  => (token' = None /\ stored' = None /\ mounted' = "login"))]_vars

\* C17: when the fetch of a poll tick fails with an error that is not a 401,
\* for the fleet poll and for the server poll, the timers stay as they were and
\* every one of them can issue its next tick.
C17_FailedTickKeepsPolling ==
  [][\A r \in InFlight :
       (r.tick /\ r.phase = "pending" /\ (LoadDashboardCatch(r) \/ LoadServerDataCatch(r)))
         => (/\ timers' = timers
             /\ timers' # {}
             /\ pollInterval' = pollInterval
             /\ \A t \in timers' :
                  Room(requests') /\ (t.kind = "server" => currentServer' # None))]_vars
\* On the dashboard no fetch has succeeded since the render and the mount fetch
\* is over: loadDashboardData failed, the timer is active and a tick is in flight.
C17_Witness ==
  /\ mounted = "dashboard"
  /\ ~counters.shown
  /\ \E t \in timers : t.id = pollInterval /\ t.kind = "dash"
  /\ BagCardinality(requests) = 1
  /\ \E r \in InFlight : r.kind = "dash" /\ r.tick

\* C18: a frame is transmitted only by a step taken while the socket in ws is
\* open and the input holds text, and that step clears the input; a sendConsole
\* call that finds the socket not open (or no text) transmits nothing, then or
\* later, and leaves the input as it was.
C18_SendOnlyWhenOpen ==
  [][/\ \A s2 \in sockets', s1 \in sockets :
          (s1.id = s2.id /\ s2.out > s1.out)
            => (s1.id = ws /\ s1.st = "open" /\ consoleIn # "" /\ consoleIn' = "")
     /\ (lastSend' # lastSend /\ lastSend' # NoSend
           /\ (lastSend'.st # "open" \/ lastSend'.text = ""))
          => (sockets' = sockets /\ consoleIn' = consoleIn)]_vars
\* sendConsole was called with text while the socket was connecting; the socket
\* has opened since: no frame went out and the text is still in the input.
C18_Witness ==
  /\ lastSend = [st |-> "connecting", text |-> "list"]
  /\ consoleIn = "list"
  /\ ReadyState(sockets, ws) = "open"
  /\ \A s \in sockets : s.out = 0

\* C19: the modal container never holds more than one modal; opening a modal
\* (create server, file editor, upload world) leaves exactly that one mounted,
\* closeModal leaves none, and every full render (navigation, tab switch,
\* login, logout) leaves none.
C19_AtMostOneModal ==
  /\ [](Cardinality(modal) <= 1)
  /\ [][/\ showCreateModal => modal' = {"create"}
        /\ (\E p \in Paths : openFile(p)) => modal' = {"editor"}
        /\ showUploadWorldModal => modal' = {"upload"}
        /\ closeModal => modal' = {}
        /\ (\/ NavigateDashboard
            \/ \E s \in Servers : NavigateServer(s)
            \/ \E tab \in Tabs : setTab(tab)
            \/ logout
            \/ \E r \in InFlight : LoginThen(r)) => modal' = {}]_vars
\* A fresh upload modal is mounted while the upload submitted from an earlier
\* one, since discarded, is still in flight.
C19_Witness ==
  /\ modal = {"upload"}
  /\ submitted = None
  /\ \E r \in InFlight : r.kind = "upload" /\ ~r.form

\* The response to the fetch r of a poll tick arrives in this step.
TickResponse(r) ==
  /\ r.tick
  /\ r.phase = "pending"
  /\ \/ \E status \in Statuses : ApiRespond(r, status)
     \/ \E servers \in ServerLists, stats \in FleetStats : LoadDashboardThen(r, servers, stats)
     \/ LoadDashboardCatch(r)
     \/ \E st \in States : LoadServerDataThen(r, st)
     \/ LoadServerDataCatch(r)

\* C20: the app tree is replaced (another view mounted, or a poll started) only
\* by a navigation, a tab switch, a login or a logout (the forced one, by the
\* 401 of a call that is not a poll tick, included); the response to a poll
\* tick, a 401 included, replaces nothing: the mounted view, its tab content
\* and modal, and the timers stay.
C20_TickNeverRenders ==
  [][/\ (mounted' # mounted \/ timers' \ timers # {})
          => (\/ NavigateDashboard
              \/ \E s \in Servers : NavigateServer(s)
              \/ \E tab \in Tabs : setTab(tab)
              \/ logout
              \/ \E r \in InFlight : LoginThen(r) \/ DeleteThen(r)
              \/ \E r \in InFlight, status \in Statuses : ~r.tick /\ ApiRespond(r, status))
     /\ \A r \in InFlight :
          TickResponse(r)
            => (/\ mounted' = mounted /\ tabContent' = tabContent /\ modal' = modal
                /\ timers' = timers /\ pollInterval' = pollInterval)]_vars

\* The frame of a routine server-detail tick: the tab content, the modal, the
\* console socket, the poll timer and the session's view, tab and server.
TickFrame ==
  /\ tabContent' = tabContent
  /\ modal' = modal
  /\ ws' = ws
  /\ sockets' = sockets
  /\ timers' = timers
  /\ pollInterval' = pollInterval
  /\ UNCHANGED sessionVars

\* C21 (as stated): a successful tick of the server poll changes, of the header,
\* only the badge, the button group and the info line (the name stays what it
\* was), and leaves the tab content, the modal, the console socket, the poll
\* timer, currentView, currentTab and currentServer unchanged.
C21_TickPatchesThreeLoci ==
  [][\A r \in InFlight, st \in States :
       (r.tick /\ LoadServerDataThen(r, st))
         => (header'.name = header.name /\ TickFrame)]_vars

\* C21 (amended): a successful tick of the server poll stores its snapshot; on
\* a header that is populated it changes only the badge, the button group and
\* the info line; on a header that is still empty (no snapshot applied since
\* the last full render) it writes the whole header, the name included; off
\* the server view it writes nothing.  In every case it leaves the tab
\* content, the modal, the console socket, the poll timer, currentView,
\* currentTab and currentServer unchanged.
C21_TickPatchesOrMountsHeader ==
  [][\A r \in InFlight, st \in States :
       (r.tick /\ LoadServerDataThen(r, st))
         => (/\ serverData' = [id |-> r.sid, state |-> st]
             /\ header # EmptyHeader =>
                  (/\ mounted = "server"
                   /\ header'.name = header.name
                   /\ Visible(header') = [text |-> st, class |-> BadgeClass(st),
                                          btn |-> Button(st), info |-> r.sid])
             /\ (header = EmptyHeader /\ mounted = "server") =>
                  header' = [name |-> r.sid, text |-> st, class |-> BadgeClass(st),
                             btn |-> Button(st), info |-> r.sid]
             /\ mounted # "server" => header' = header
             /\ TickFrame)]_vars

\* Two ticks have been applied while the mount fetch is still out: the second
\* patched the badge from running to stopped beside a connecting socket.
C21_Witness ==
  /\ mounted = "server"
  /\ tabContent = "empty"
  /\ prevBadge = "running"
  /\ header.text = "stopped"
  /\ header.name = currentServer
  /\ \E s \in sockets : s.id = ws /\ s.st = "connecting"
  /\ \E r \in InFlight : r.kind = "getServer" /\ r.full /\ r.phase = "pending"

\* C22: a poll tick (not the mount fetch) that fails with an error other than
\* a 401 is swallowed: no error message is written and nothing of the visible
\* tree or of the session state changes.
C22_FailedTickIsSilent ==
  [][\A r \in InFlight :
       (r.tick /\ r.phase = "pending" /\ (LoadDashboardCatch(r) \/ LoadServerDataCatch(r)))
         => (/\ tabContent' = tabContent
             /\ UNCHANGED <<token, stored, sessionVars, serverData, pollInterval, timers,
                            socketVars, mounted, header, prevBadge, rows, modal,
                            dashVars, inputVars>>)]_vars

\* The console tab of a server is mounted with its header and a tick's fetch
\* is out, which may fail.
C22_Witness ==
  /\ mounted = "server"
  /\ tabContent = "console"
  /\ header # EmptyHeader
  /\ \E r \in InFlight :
       r.tick /\ r.kind = "getServer" /\ r.phase = "pending" /\ ENABLED LoadServerDataCatch(r)

\* C23: whatever order the getServer responses arrive in, each one applied is
\* stored and shown (last applied wins): the step of a response sets the stored
\* snapshot and, on the server view, the badge, button and info line to that
\* response's; the header and the stored snapshot change in no other step
\* but a full render and the optimistic badge write; so the header, when it
\* shows a snapshot, shows the stored one.
C23_LastAppliedWins ==
  /\ [](header # EmptyHeader =>
          (/\ header.info = serverData.id
           /\ header.btn = Button(serverData.state)
           /\ header.text \notin {"starting", "stopping"} =>
                (header.text = serverData.state /\ header.class = BadgeClass(serverData.state))))
  /\ [][\A r \in InFlight, st \in States :
          LoadServerDataThen(r, st)
            => (/\ serverData' = [id |-> r.sid, state |-> st]
                /\ mounted = "server" =>
                     Visible(header') = [text |-> st, class |-> BadgeClass(st),
                                         btn |-> Button(st), info |-> r.sid])]_vars
  /\ [][(header' # header \/ serverData' # serverData)
          => (\/ \E r \in InFlight, st \in States : LoadServerDataThen(r, st)
              \/ \E r \in InFlight : ActionThen(r)
              \/ (header' = EmptyHeader /\ serverData' = serverData))]_vars

\* Since the latest full render two snapshots have been applied, stopped and
\* then running, while that render's own fetch, issued before the second of
\* them, is still out; the stored snapshot is the one applied last.
C23_Witness ==
  /\ mounted = "server"
  /\ tabContent = "empty"
  /\ prevBadge = "stopped"
  /\ header.text = "running"
  /\ serverData.state = "running"
  /\ \E r \in InFlight : r.kind = "getServer" /\ r.full /\ r.phase = "pending"

\* C24: when the console socket fails or the peer drops it (it closes without
\* ws.close() having been called), the session is closed, one notice is
\* appended to the mounted transcript, and no alert is shown.
C24_SocketErrorNoticed ==
  [][\A s \in sockets :
       (s.id = ws /\ consoleOut = s.id /\ s.st \in {"connecting", "open"} /\ SocketCloses(s))
         => (/\ ReadyState(sockets', ws') = "closed"
             /\ Len(transcript') = Len(transcript) + 1
             /\ alerted' = None)]_vars

\* A socket of sockets' that sockets does not hold.
Opened(s) == s \in sockets' /\ s.id \notin {o.id : o \in sockets}

\* C25: a socket is opened only by the response to the mount fetch of a full
\* render, with currentTab = console on the server view; no close of a
\* socket, no poll tick, no response to one and no submit of the console form
\* opens one.
C25_NoAutomaticReconnect ==
  /\ [][(\E s \in sockets' : Opened(s))
          => (/\ mounted = "server"
              /\ currentTab = "console"
              /\ \E r \in InFlight, st \in States :
                   r.full /\ ~r.tick /\ LoadServerDataThen(r, st))]_vars
  /\ [][((\E s \in sockets : SocketCloses(s)) \/ sendConsole \/ (\E t \in timers : Tick(t)))
          => (ws' = ws /\ \A s \in sockets' : ~Opened(s))]_vars

\* The bound socket has closed on the mounted console, a send was attempted
\* on it, a tick has patched the header since, and no socket is connecting
\* or open.
C25_Witness ==
  /\ mounted = "server"
  /\ tabContent = "console"
  /\ ReadyState(sockets, ws) = "closed"
  /\ lastSend = [st |-> "closed", text |-> "list"]
  /\ prevBadge # None
  /\ NotClosed(sockets) = {}
  /\ requests = EmptyBag

C27_FailedActionAlertsOnly ==
  [][\A r \in InFlight :
       ActionCatch(r)
         => (/\ alerted' = "e.message"
             /\ header' = header
             /\ prevBadge' = prevBadge
             /\ requests' = Drop(requests, r)
             /\ mounted' = mounted
             /\ timers' = timers
             /\ pollInterval' = pollInterval
             /\ UNCHANGED <<sessionVars, serverData, tabContent>>)]_vars

\* The alert of a failed click is up on the server view: the badge is the
\* snapshot's, no request is out and the view has not changed.
C27_Witness ==
  /\ alerted = "e.message"
  /\ mounted = "server"
  /\ currentView = "server"
  /\ header.text = "stopped"
  /\ header.btn = "start"
  /\ requests = EmptyBag

\* No getServer call is in flight.
Delivered == \A r \in InFlight : r.kind # "getServer"

\* C28: once every getServer response has been delivered, with the console
\* tab mounted on the server view, each socket that is connecting or open is
\* addressed to currentServer.
C28_SettledSocketIsCurrentServer ==
  (Delivered /\ mounted = "server" /\ currentTab = "console" /\ tabContent = "console")
    => \A s \in NotClosed(sockets) : s.sid = currentServer

\* C29: once every getServer response has been delivered, a header that is
\* populated on the server view shows the name and the info line of
\* currentServer.
C29_SettledHeaderIsCurrentServer ==
  (Delivered /\ mounted = "server" /\ header # EmptyHeader)
    => (header.name = currentServer /\ header.info = currentServer)

\* C30: state.token and localStorage's 'token' agree in every state between
\* two events: both absent, or both present with one value.
C30_CredentialsAgree == token = stored

\* C31: on the server-detail view, once no mount fetch (a getServer call made by
\* render()) is in flight, #tab-content holds the content of state.currentTab, or
\* the error card of a failed fetch: never the content of an earlier tab. Every
\* successful mount response that finds the shell mounts the tab that
\* state.currentTab names when it arrives, whichever tab was current when the
\* fetch was issued.
MountFetches == {r \in InFlight : r.kind = "getServer" /\ r.full}

C31_SettledTabIsCurrentTab ==
  /\ []((mounted = "server" /\ MountFetches = {}) => tabContent \in {currentTab, "error"})
  /\ [][\A r \in InFlight, st \in States :
          (LoadServerDataThen(r, st) /\ r.full /\ mounted = "server")
            => tabContent' = currentTab']_vars

\* A tab other than the initial one was selected, every mount fetch was delivered
\* and the selected tab's content is mounted.
C31_Witness ==
  /\ mounted = "server"
  /\ MountFetches = {}
  /\ currentTab = "files"
  /\ tabContent = "files"
  /\ ws # 0

\* C32: a response to a mount fetch (success or failure, a 401 included) that
\* arrives when the server-detail shell is no longer mounted (the dashboard or
\* the login view is) raises no uncaught error, opens no socket and leaves the
\* mounted view as it is.
C32_LateMountResponseIsHarmless ==
  [][\A r \in InFlight, st \in States :
       ((LoadServerDataThen(r, st) \/ LoadServerDataCatch(r))
          /\ r.full /\ mounted # "server")
         => (/\ ~uncaught'
             /\ UNCHANGED socketVars
             /\ UNCHANGED <<mounted, header, tabContent, rows, modal, dashVars,
                            consoleIn, consoleVars>>)]_vars

\* C33: the text in the file editor modal is the text of the file its Save
\* button writes to (or still empty, before the read has answered), whatever
\* the order in which the reads of files opened one after the other arrive; so
\* no save writes one file's text to another file.
C33_EditorShowsItsOwnFile ==
  /\ editor # NoEditor => editor.value \in {"", Content(editor.path)}
  /\ \A r \in InFlight :
       r.kind = "writeFile" => r.content \in {"", Content(r.path)}
====
